---- MODULE Spec2Model ----
(***************************************************************************)
(* State-machine model of src/agent/modes.js: the mode list, the execute   *)
(* wrapper and the ModeController (update, setOn, isOn, pause, exists).    *)
(*                                                                         *)
(* A call of ModeController.update (a tick) runs in pieces, one step per   *)
(* stretch of code between two awaits: update (from the call to the first  *)
(* await), isClearPath_return (a mode's update goes on after its           *)
(* `await world.isClearPath`) and update_resume (the controller goes on    *)
(* after `await mode.update(this.agent)`, modes.js:204, and reads          *)
(* mode.active, modes.js:205).  Between two pieces anything else may run:  *)
(* the end of an action, a control call, a change of the world.  The part  *)
(* of execute after its await (modes.js:154) is the step execute_return,   *)
(* taken when agent.coder.execute settles.  The agent loop awaits each     *)
(* tick before it starts the next, so at most one tick is under way.       *)
(*                                                                         *)
(* The collaborators that are not part of modes.js are inputs: the idle    *)
(* predicate (agent.isIdle), the world queries (nearest hostile, huntable, *)
(* item, torch) and the clock (Date.now).  The gaze fields of idle_staring *)
(* (staring, last_entity, next_change) drive only bot.look/lookAt and are  *)
(* left out.                                                               *)
(***************************************************************************)
EXTENDS Integers, Sequences, FiniteSets, TLC

\* ---------------------------------------------------------------- bounds
\* Date.now() runs over 0, 1000, ..., MaxClock * 1000 milliseconds.
MaxClock == 6
\* At most MaxInFlight execute invocations of one mode are pending at once.
MaxInFlight == 2
\* At most MaxCalls control calls (setOn, isOn, pause) in a run of Spec.
MaxCalls == 1
\* At most MaxSwitches control calls in a run of SpecOnOff, SpecCalls or
\* SpecPause.
MaxSwitches == 2

\* ------------------------------------------------------- program constants
\* item_collecting.wait, in seconds
wait == 2
\* the value of noticed_at that means "no item noticed"
NotNoticed == -1

\* the order of this list matters: first modes are prioritized
modes ==
    <<"self_defense", "hunting", "item_collecting", "torch_placing", "idle_staring">>

\* the mode objects, by name
ModeNames == {modes[i] : i \in 1..Len(modes)}

\* modes_map is a plain {} object: besides its own keys it has what it
\* inherits from Object.prototype, "__proto__" (Object.prototype itself) and
\* these function-valued properties.
FunctionNames ==
    {"constructor", "hasOwnProperty", "isPrototypeOf", "propertyIsEnumerable",
     "toLocaleString", "toString", "valueOf",
     "__defineGetter__", "__defineSetter__", "__lookupGetter__", "__lookupSetter__"}

\* The names of the properties setOn and pause write.  Written to
\* Object.prototype (through the name "__proto__") they become properties
\* modes_map inherits, with a boolean value.
FlagNames == {"on", "paused"}

\* Names passed to exists/setOn/isOn/pause: the registered names, a name that
\* is no property of modes_map at all, "__proto__", and one of the inherited
\* functions.
CallNames == ModeNames \cup {"nonexistent", "__proto__", "constructor"}

\* the same with the two flag names
AllNames == CallNames \cup FlagNames

\* the names under which a call writes a flag that a mode reads
FlagTargets == ModeNames \cup {"__proto__"}

\* item entities, compared by identity; "null" is no item
Items == {"X", "Y"}

VARIABLES
    modes_list,  \* this.modes_list
    modes_map,   \* the own keys of this.modes_map (each maps to the mode of that name)
    on,          \* mode.on
    active,      \* mode.active
    paused,      \* mode.paused as an own property: "undefined", "true", "false"
    proto,       \* the on/paused properties of Object.prototype
    inherited,   \* per function modes_map inherits, its own on/paused properties
    inflight,    \* per mode, execute invocations awaiting agent.coder.execute
    prev_item,   \* item_collecting.prev_item
    noticed_at,  \* item_collecting.noticed_at
    pc,          \* where the tick under way is suspended: "none" (no tick),
                 \* "path"/"blocked" (in a mode's update, at await isClearPath,
                 \* which will answer true/false), "resume" (in
                 \* ModeController.update, at await mode.update)
    cur,         \* position in modes_list of the mode the tick is at, 0 if none
    cand,        \* the local `item` of item_collecting.update while suspended
    idle,        \* agent.isIdle()
    enemy,       \* a hostile entity is within 8 blocks with a clear path
    huntable,    \* a huntable entity is within 8 blocks with a clear path
    item,        \* nearest item entity within 8 blocks, or "null"
    item_clear,  \* world.isClearPath(bot, item)
    torch,       \* no torch block within 8 blocks and a torch in the inventory
    now,         \* Date.now()
    calls,       \* number of setOn/isOn/pause calls made so far
    fired,       \* history: the mode at cur called execute in the tick under way
    item_since,  \* history: the time at which item took its present value
    first_seen,  \* history: when the present candidate started the dwell timer
    last         \* history: the last step and what it did

vars == <<modes_list, modes_map, on, active, paused, proto, inherited, inflight, prev_item, noticed_at, pc, cur,
          cand, idle, enemy, huntable, item, item_clear, torch, now, calls, fired,
          item_since, first_seen, last>>

registry == <<modes_list, modes_map>>

world == <<idle, enemy, huntable, item, item_clear, torch, now>>

\* op: the step; name: the mode name a control call was given; target: what
\* modes_map[mode_name] was for it; err: the call threw; ret: what isOn
\* returned, the value setOn was given;
\* invoked, dispatched: the modes whose update the step called and that
\* called execute in it; unpaused: the modes a tick logged as unpaused;
\* dwell: for a step in which item_collecting goes on with a reachable
\* candidate whose first sighting started the dwell timer and which has
\* stayed eligible since, the time since that sighting; NotNoticed otherwise
NoOp == [op |-> "init", name |-> "", target |-> "", invoked |-> {}, dispatched |-> {},
         unpaused |-> {}, err |-> FALSE, ret |-> "", dwell |-> NotNoticed]

\* ------------------------------------------------------------ mode fields
\* mode.paused as the code reads it: the own property, else the inherited one
read_paused(own, pr, m) ==
    IF own[m] = "undefined" THEN pr.paused = "true" ELSE own[m] = "true"

mode_paused(m) == read_paused(paused, proto, m)

js(b) == IF b THEN "true" ELSE "false"

\* --------------------------------------------------------------- execute
\* execute up to its await: mode.active = true, agent.coder.execute is called
execute(m, s) ==
    [s EXCEPT !.active[m] = TRUE,
              !.inflight[m] = @ + 1,
              !.dispatched = @ \cup {m}]

\* ---------------------------------------------------------- mode updates
\* Each update is entered with s.pc = "resume": the update that runs to its
\* end leaves it so, the one that stops at await world.isClearPath sets
\* "path" or "blocked".
\* variant: self_defense waits for the agent to be idle, as the other modes do
self_defense_update_when_idle(s) ==
    IF s.active["self_defense"] THEN s
    ELSE IF idle
    THEN IF enemy THEN [s EXCEPT !.pc = "path"] ELSE s
    ELSE s

self_defense_update(s) ==
    IF s.active["self_defense"] THEN s
    ELSE IF enemy THEN [s EXCEPT !.pc = "path"]
    ELSE s

\* self_defense.update after its await
self_defense_path(s) == execute("self_defense", s)

hunting_update(s) ==
    IF idle
    THEN IF huntable THEN [s EXCEPT !.pc = "path"] ELSE s
    ELSE s

\* hunting.update after its await
hunting_path(s) == execute("hunting", s)

\* variant: the candidate is not compared with prev_item
item_collecting_update_no_prev_test(s) ==
    IF s.active["item_collecting"] THEN s
    ELSE IF idle
    THEN IF item # "null"
         THEN [s EXCEPT !.pc = IF item_clear THEN "path" ELSE "blocked",
                        !.cand = item]
         ELSE [s EXCEPT !.noticed_at = NotNoticed]
    ELSE s

item_collecting_update(s) ==
    IF s.active["item_collecting"] THEN s
    ELSE IF idle
    THEN IF item # "null" /\ item # s.prev_item
         THEN [s EXCEPT !.pc = IF item_clear THEN "path" ELSE "blocked",
                        !.cand = item]
         ELSE [s EXCEPT !.noticed_at = NotNoticed]
    ELSE s

\* variant: the dwell test passes at exactly wait seconds
item_collecting_path_at_wait(s) ==
    LET noticed == IF s.noticed_at = NotNoticed THEN now ELSE s.noticed_at
    IN  IF now - noticed >= wait * 1000
        THEN [execute("item_collecting", [s EXCEPT !.prev_item = s.cand])
                  EXCEPT !.noticed_at = NotNoticed]
        ELSE [s EXCEPT !.noticed_at = noticed]

\* item_collecting.update after its await, isClearPath answered true
item_collecting_path(s) ==
    LET noticed == IF s.noticed_at = NotNoticed THEN now ELSE s.noticed_at
    IN  IF now - noticed > wait * 1000
        THEN [execute("item_collecting", [s EXCEPT !.prev_item = s.cand])
                  EXCEPT !.noticed_at = NotNoticed]
        ELSE [s EXCEPT !.noticed_at = noticed]

\* item_collecting.update after its await, isClearPath answered false
item_collecting_blocked(s) == [s EXCEPT !.noticed_at = NotNoticed]

torch_placing_update(s) ==
    IF s.active["torch_placing"] THEN s
    ELSE IF idle
    THEN IF torch THEN execute("torch_placing", s) ELSE s
    ELSE s

idle_staring_update(s) ==
    [s EXCEPT !.active["idle_staring"] = idle]

\* mode.update(this.agent) up to its first await
mode_update(m, s) ==
    CASE m = "self_defense"    -> self_defense_update(s)
      [] m = "hunting"         -> hunting_update(s)
      [] m = "item_collecting" -> item_collecting_update(s)
      [] m = "torch_placing"   -> torch_placing_update(s)
      [] m = "idle_staring"    -> idle_staring_update(s)

\* the rest of mode.update once isClearPath has answered
mode_path(m, s) ==
    CASE m = "self_defense"    -> self_defense_path(s)
      [] m = "hunting"         -> hunting_path(s)
      [] m = "item_collecting" -> IF pc = "path" THEN item_collecting_path(s)
                                  ELSE item_collecting_blocked(s)
      [] OTHER                 -> s

\* ------------------------------------------------------- ModeController
\* variant: a mode whose action is running is not unpaused
unpause_skip_active(own) ==
    IF idle THEN [m \in ModeNames |-> IF active[m] THEN own[m] ELSE "false"] ELSE own

\* variant: modes are unpaused on every tick, idle or not
unpause_always(own) == [m \in ModeNames |-> "false"]

\* when idle, unpause all modes
unpause(own) ==
    IF idle THEN [m \in ModeNames |-> "false"] ELSE own

\* variant: the guard forgets mode.paused
evaluated_ignoring_paused(m, own) == on[m]

\* the guard of the evaluation loop: mode.on && !mode.paused
evaluated(m, own) == on[m] /\ ~read_paused(own, proto, m)

\* the evaluation loop from position i on, up to its next await: the modes
\* that fail the guard are passed over, the first that passes it has its
\* update called and the loop waits for it
RECURSIVE walk(_, _, _)
walk(i, own, s) ==
    IF i > Len(modes_list) THEN [s EXCEPT !.pc = "none", !.cur = 0]
    ELSE LET m == modes_list[i]
         IN  IF evaluated(m, own)
             THEN mode_update(m, [s EXCEPT !.invoked = @ \cup {m},
                                           !.pc = "resume", !.cur = i])
             ELSE walk(i + 1, own, s)

\* the fields a piece of a tick works on
tick_state ==
    [active |-> active, inflight |-> inflight, prev_item |-> prev_item,
     noticed_at |-> noticed_at, pc |-> pc, cur |-> cur, cand |-> cand,
     invoked |-> {}, dispatched |-> {}]

\* what a piece of a tick leaves behind
tick_effect(s) ==
    /\ \A m \in ModeNames : s.inflight[m] <= MaxInFlight
    /\ active' = s.active
    /\ inflight' = s.inflight
    /\ prev_item' = s.prev_item
    /\ noticed_at' = s.noticed_at
    /\ pc' = s.pc
    /\ cur' = s.cur
    /\ cand' = IF s.pc \in {"path", "blocked"} THEN s.cand ELSE "null"
    /\ fired' = (s.pc = "resume" /\ s.dispatched # {})

\* a call of ModeController.update has not run to its end
tick_under_way == pc # "none"

\* ModeController.update from its call to its first await
update ==
    /\ ~tick_under_way
    /\ LET own == unpause(paused)
           s   == walk(1, own, tick_state)
       IN  /\ tick_effect(s)
           /\ paused' = own
           /\ last' = [NoOp EXCEPT !.op = "update",
                                   !.invoked = s.invoked,
                                   !.dispatched = s.dispatched,
                                   !.unpaused = IF idle
                                                THEN {m \in ModeNames : mode_paused(m)}
                                                ELSE {}]
    /\ UNCHANGED <<registry, on, proto, inherited, world, calls, item_since, first_seen>>

\* a mode's update goes on after await world.isClearPath and runs to its end
isClearPath_return ==
    /\ pc \in {"path", "blocked"}
    /\ LET m == modes_list[cur]
           s == mode_path(m, [tick_state EXCEPT !.pc = "resume"])
           timed == m = "item_collecting" /\ pc = "path"
           \* the timer starts here on a candidate that is still the one in view
           fresh == /\ first_seen = NotNoticed /\ noticed_at = NotNoticed
                    /\ cand = item /\ idle /\ item_clear
       IN  /\ tick_effect(s)
           /\ first_seen' = IF ~timed THEN first_seen
                            ELSE IF "item_collecting" \in s.dispatched THEN NotNoticed
                            ELSE IF fresh THEN now
                            ELSE first_seen
           /\ last' = [NoOp EXCEPT !.op = "isClearPath_return",
                                   !.dispatched = s.dispatched,
                                   !.dwell = IF ~timed THEN NotNoticed
                                             ELSE IF first_seen # NotNoticed
                                                  THEN now - first_seen
                                             ELSE IF fresh THEN 0
                                             ELSE NotNoticed]
    /\ UNCHANGED <<registry, on, paused, proto, inherited, world, calls, item_since>>

\* ModeController.update goes on after await mode.update(this.agent): it
\* reads mode.active and breaks, or goes round the loop up to the next await
update_resume ==
    /\ pc = "resume"
    /\ LET m == modes_list[cur]
           s == IF active[m] THEN [tick_state EXCEPT !.pc = "none", !.cur = 0]
                ELSE walk(cur + 1, paused, tick_state)
       IN  /\ tick_effect(s)
           /\ last' = [NoOp EXCEPT !.op = "update_resume",
                                   !.invoked = s.invoked,
                                   !.dispatched = s.dispatched]
    /\ UNCHANGED <<registry, on, paused, proto, inherited, world, calls, item_since, first_seen>>

\* How the promise of agent.coder.execute settles: it resolves with a
\* code_return that reports success or failure, or it rejects.
Resolved == {"success", "failure"}
Outcomes == Resolved \cup {"rejected"}

\* execute after its await: agent.coder.execute has settled.  The await is in
\* no try block: when the promise rejects, execute throws there and the
\* assignment mode.active = false is not reached.
execute_return(m, o) ==
    /\ inflight[m] > 0
    /\ inflight' = [inflight EXCEPT ![m] = @ - 1]
    /\ active' = IF o = "rejected" THEN active ELSE [active EXCEPT ![m] = FALSE]
    /\ last' = [NoOp EXCEPT !.op = "execute_return"]
    /\ UNCHANGED <<registry, on, paused, proto, inherited, prev_item, noticed_at, pc, cur, cand,
                   world, calls, fired, item_since, first_seen>>

\* this.modes_map[mode_name]: a registered mode (an own key), or what the
\* plain object modes_map inherits: Object.prototype itself, a function, a
\* boolean that setOn/pause wrote to Object.prototype under the name on or
\* paused; undefined for any other name
lookup(n) ==
    IF n \in modes_map THEN "mode"
    ELSE IF n = "__proto__" THEN "prototype"
    ELSE IF n \in FunctionNames THEN "function"
    ELSE IF n \in FlagNames /\ proto[n] # "undefined" THEN "boolean"
    ELSE "undefined"

\* modes_map[mode_name].on = ... or .paused = ... throws: a TypeError on
\* undefined, and, the file being an ES module (strict code), on a boolean
write_throws(n) == lookup(n) \in {"undefined", "boolean"}

exists(n) == lookup(n) # "undefined"

setOn(n, v) ==
    /\ calls' = calls + 1
    /\ on' = IF lookup(n) = "mode" THEN [on EXCEPT ![n] = v] ELSE on
    /\ proto' = IF lookup(n) = "prototype" THEN [proto EXCEPT !.on = js(v)] ELSE proto
    /\ inherited' = IF lookup(n) = "function"
                    THEN [inherited EXCEPT ![n].on = js(v)] ELSE inherited
    /\ last' = [NoOp EXCEPT !.op = "setOn", !.name = n, !.target = lookup(n),
                            !.err = write_throws(n), !.ret = js(v)]
    /\ UNCHANGED <<registry, active, paused, inflight, prev_item, noticed_at, pc, cur, cand,
                   world, fired, item_since, first_seen>>

\* what isOn returns: the on property of modes_map[mode_name], own or
\* inherited; "TypeError" when modes_map[mode_name] is undefined
isOn_result(n) ==
    CASE lookup(n) = "mode"      -> js(on[n])
      [] lookup(n) = "prototype" -> proto.on
      [] lookup(n) = "function"  -> IF inherited[n].on = "undefined" THEN proto.on
                                    ELSE inherited[n].on
      [] lookup(n) = "boolean"   -> proto.on
      [] OTHER                   -> "TypeError"

isOn(n) ==
    /\ calls' = calls + 1
    /\ last' = [NoOp EXCEPT !.op = "isOn", !.name = n, !.target = lookup(n),
                            !.err = (lookup(n) = "undefined"),
                            !.ret = isOn_result(n)]
    /\ UNCHANGED <<registry, on, active, paused, proto, inherited, inflight, prev_item, noticed_at,
                   pc, cur, cand, world, fired, item_since, first_seen>>

\* variant: pausing a mode also switches it off
pause_turns_off(n) ==
    /\ calls' = calls + 1
    /\ paused' = IF lookup(n) = "mode" THEN [paused EXCEPT ![n] = "true"] ELSE paused
    /\ on' = IF lookup(n) = "mode" THEN [on EXCEPT ![n] = FALSE] ELSE on
    /\ proto' = IF lookup(n) = "prototype" THEN [proto EXCEPT !.paused = "true"]
                ELSE proto
    /\ inherited' = IF lookup(n) = "function"
                    THEN [inherited EXCEPT ![n].paused = "true"] ELSE inherited
    /\ last' = [NoOp EXCEPT !.op = "pause", !.name = n, !.target = lookup(n),
                            !.err = write_throws(n)]
    /\ UNCHANGED <<registry, active, inflight, prev_item, noticed_at, pc, cur, cand,
                   world, fired, item_since, first_seen>>

pause(n) ==
    /\ calls' = calls + 1
    /\ paused' = IF lookup(n) = "mode" THEN [paused EXCEPT ![n] = "true"] ELSE paused
    /\ proto' = IF lookup(n) = "prototype" THEN [proto EXCEPT !.paused = "true"]
                ELSE proto
    /\ inherited' = IF lookup(n) = "function"
                    THEN [inherited EXCEPT ![n].paused = "true"] ELSE inherited
    /\ last' = [NoOp EXCEPT !.op = "pause", !.name = n, !.target = lookup(n),
                            !.err = write_throws(n)]
    /\ UNCHANGED <<registry, on, active, inflight, prev_item, noticed_at, pc, cur, cand,
                   world, fired, item_since, first_seen>>

\* ----------------------------------------------------------- environment
Env == [NoOp EXCEPT !.op = "env"]

frame == <<registry, on, active, paused, proto, inherited, inflight, prev_item, noticed_at, pc, cur,
           cand, calls, fired>>

SetIdle ==
    /\ idle' = ~idle
    /\ first_seen' = NotNoticed
    /\ last' = Env
    /\ UNCHANGED <<frame, enemy, huntable, item, item_clear, torch, now, item_since>>

SetEnemy ==
    /\ enemy' = ~enemy
    /\ last' = Env
    /\ UNCHANGED <<frame, idle, huntable, item, item_clear, torch, now, item_since,
                   first_seen>>

SetHuntable ==
    /\ huntable' = ~huntable
    /\ last' = Env
    /\ UNCHANGED <<frame, idle, enemy, item, item_clear, torch, now, item_since,
                   first_seen>>

SetItem ==
    /\ \E x \in (Items \cup {"null"}) \ {item} : item' = x
    /\ item_since' = now
    /\ first_seen' = NotNoticed
    /\ last' = Env
    /\ UNCHANGED <<frame, idle, enemy, huntable, item_clear, torch, now>>

SetItemClear ==
    /\ item_clear' = ~item_clear
    /\ first_seen' = NotNoticed
    /\ last' = Env
    /\ UNCHANGED <<frame, idle, enemy, huntable, item, torch, now, item_since>>

SetTorch ==
    /\ torch' = ~torch
    /\ last' = Env
    /\ UNCHANGED <<frame, idle, enemy, huntable, item, item_clear, now, item_since,
                   first_seen>>

Advance ==
    /\ now + 1000 <= MaxClock * 1000
    /\ now' = now + 1000
    /\ last' = Env
    /\ UNCHANGED <<frame, idle, enemy, huntable, item, item_clear, torch, item_since,
                   first_seen>>

\* --------------------------------------------------------- specification
Init ==
    /\ modes_list = modes
    /\ modes_map = ModeNames
    /\ on = [m \in ModeNames |-> TRUE]
    /\ active = [m \in ModeNames |-> FALSE]
    /\ paused = [m \in ModeNames |-> "undefined"]
    /\ proto = [on |-> "undefined", paused |-> "undefined"]
    /\ inherited = [n \in FunctionNames |-> [on |-> "undefined", paused |-> "undefined"]]
    /\ inflight = [m \in ModeNames |-> 0]
    /\ prev_item = "null"
    /\ noticed_at = NotNoticed
    /\ pc = "none"
    /\ cur = 0
    /\ cand = "null"
    /\ idle = TRUE
    /\ enemy = FALSE
    /\ huntable = FALSE
    /\ item = "null"
    /\ item_clear = TRUE
    /\ torch = FALSE
    /\ now = 0
    /\ calls = 0
    /\ fired = FALSE
    /\ item_since = 0
    /\ first_seen = NotNoticed
    /\ last = NoOp

\* the pieces of a tick
tick == update \/ isClearPath_return \/ update_resume

\* The controller with its control calls, a hostile entity and torches;
\* every dispatched action resolves.
Next ==
    \/ tick
    \/ \E m \in ModeNames, o \in Resolved : execute_return(m, o)
    \/ \E n \in CallNames, v \in BOOLEAN : calls < MaxCalls /\ setOn(n, v)
    \/ \E n \in CallNames : calls < MaxCalls /\ isOn(n)
    \/ \E n \in CallNames : calls < MaxCalls /\ pause(n)
    \/ SetIdle
    \/ SetEnemy
    \/ SetTorch

Spec == Init /\ [][Next]_vars

\* The dwell timer of item_collecting: the clock runs and items come and go.
NextDwell ==
    \/ tick
    \/ \E m \in ModeNames, o \in Resolved : execute_return(m, o)
    \/ SetIdle
    \/ SetItem
    \/ SetItemClear
    \/ Advance

SpecDwell == Init /\ [][NextDwell]_vars

\* Modes switched off and on again while a tick is under way.
NextOnOff ==
    \/ tick
    \/ \E m \in ModeNames, o \in Resolved : execute_return(m, o)
    \/ \E n \in ModeNames, v \in BOOLEAN : calls < MaxSwitches /\ setOn(n, v)
    \/ SetEnemy
    \/ SetHuntable

SpecOnOff == Init /\ [][NextOnOff]_vars

\* Control calls that follow one another, with any name, around the pieces
\* of ticks and the ends of actions.
NextCalls ==
    \/ tick
    \/ \E m \in ModeNames, o \in Resolved : execute_return(m, o)
    \/ \E n \in AllNames, v \in BOOLEAN : calls < MaxSwitches /\ setOn(n, v)
    \/ \E n \in AllNames : calls < MaxSwitches /\ isOn(n)
    \/ \E n \in AllNames : calls < MaxSwitches /\ pause(n)
    \/ SetEnemy

SpecCalls == Init /\ [][NextCalls]_vars

\* Control calls that follow one another on modes that are paused, with
\* ticks that find the agent idle or not.
NextPause ==
    \/ tick
    \/ \E m \in ModeNames, o \in Resolved : execute_return(m, o)
    \/ \E n \in FlagTargets, v \in BOOLEAN : calls < MaxSwitches /\ setOn(n, v)
    \/ \E n \in FlagTargets : calls < MaxSwitches /\ isOn(n)
    \/ \E n \in FlagTargets : calls < MaxSwitches /\ pause(n)
    \/ SetIdle
    \/ SetEnemy

SpecPause == Init /\ [][NextPause]_vars

\* How dispatched actions settle: the promise of agent.coder.execute resolves
\* or rejects, and every action in flight settles in the end.
settle(m) == \E o \in Outcomes : execute_return(m, o)

NextSettle ==
    \/ tick
    \/ \E m \in ModeNames : settle(m)
    \/ SetIdle
    \/ SetEnemy
    \/ SetHuntable
    \/ SetTorch

SpecSettle ==
    Init /\ [][NextSettle]_vars /\ \A m \in ModeNames : WF_vars(settle(m))


\* ------------------------------------------------------------------ claims
\* the steps that are pieces of a tick
TickOps == {"update", "isClearPath_return", "update_resume"}

\* C1: in every reachable state at most one mode has active = true.
C1_AtMostOneActive ==
    Cardinality({m \in ModeNames : active[m]}) <= 1

\* C2: once a mode has dispatched its action in a tick, the tick invokes the
\* update of no mode behind it: when the controller goes on after the update
\* of a mode that dispatched, it stops.
C2_PriorityStop ==
    [][(last'.op = "update_resume" /\ fired) => last'.invoked = {}]_vars

\* C3: while a mode is off, no tick invokes its update and no step takes it
\* from active = false to active = true.
C3_OffNeverTriggered ==
    [][\A m \in ModeNames : ~on[m] =>
          /\ m \notin last'.invoked
          /\ ~(~active[m] /\ active'[m])]_vars

\* C4 as stated: no reachable state has a mode that is paused and active.
C4_NeverPausedAndActive ==
    \A m \in ModeNames : ~(mode_paused(m) /\ active[m])

\* C4 as amended: a mode comes to be paused and active together only by a
\* pause call that lands while the mode is active, or when the update of the
\* mode, called while the mode was not paused, dispatches after its await on
\* isClearPath although the mode has been paused in between; a tick never
\* calls the update of a paused mode.
C4_PausedNotActivated ==
    [][\A m \in ModeNames :
          /\ (mode_paused(m)' /\ active'[m] /\ ~(mode_paused(m) /\ active[m])) =>
                \/ last'.op = "pause" /\ active[m]
                \/ /\ last'.op = "isClearPath_return"
                   /\ m = modes_list[cur] /\ mode_paused(m)
          /\ mode_paused(m)' => m \notin last'.invoked]_vars

C4_Witness ==
    /\ last.op = "isClearPath_return"
    /\ "self_defense" \in last.dispatched
    /\ mode_paused("self_defense") /\ active["self_defense"]
    /\ inflight["self_defense"] = 1

\* C5: a tick calls the update of a mode only if the mode is on and not
\* paused at the call; a mode that is paused or off when the loop reaches it
\* is passed over and dispatches nothing in that piece of the tick; only a
\* mode whose update has been called dispatches.
C5_InvokedOnlyOnUnpaused ==
    [][/\ last'.op \in {"update", "update_resume"} =>
            /\ \A m \in last'.invoked : on[m] /\ ~mode_paused(m)'
            /\ \A m \in ModeNames :
                  (mode_paused(m)' \/ ~on[m]) => m \notin last'.dispatched
            /\ last'.dispatched \subseteq last'.invoked
       /\ last'.op = "isClearPath_return" =>
            last'.dispatched \subseteq {modes_list[cur]}
       /\ last'.op \notin TickOps =>
            (last'.invoked = {} /\ last'.dispatched = {})]_vars

C5_Witness ==
    /\ last.op = "update" /\ ~idle /\ enemy
    /\ mode_paused("self_defense") /\ on["self_defense"]
    /\ ~active["self_defense"]
    /\ last.invoked = {"hunting"} /\ cur = 2

\* C6: when the agent is idle at the start of a tick, every mode is unpaused
\* before the first update of the tick is called: the first piece of the
\* tick leaves no mode paused, and the mode whose update it calls is the
\* first mode that is on.
C6_IdleTickUnpausesAll ==
    [][(last'.op = "update" /\ idle) =>
          /\ \A m \in ModeNames : ~mode_paused(m)'
          /\ \A i \in 1..Len(modes_list) :
                (on[modes_list[i]] /\ \A j \in 1..(i - 1) : ~on[modes_list[j]])
                    => last'.invoked = {modes_list[i]}]_vars

C6_Witness ==
    /\ last.op = "update" /\ idle
    /\ last.unpaused # {}
    /\ last.invoked # {} /\ last.invoked \subseteq last.unpaused
    /\ \A m \in ModeNames : ~mode_paused(m)

\* C7: the paused flag of a mode goes from true to false only in the first
\* piece of a tick that finds the agent idle.
C7_OnlyIdleTickUnpauses ==
    [][\A m \in ModeNames :
          (mode_paused(m) /\ ~mode_paused(m)') => (last'.op = "update" /\ idle)]_vars

C7_Witness ==
    /\ last.op = "update" /\ idle
    /\ last.unpaused = {"self_defense", "hunting"}
    /\ proto.paused = "undefined"
    /\ \A m \in ModeNames : ~mode_paused(m)
    /\ active["self_defense"]

\* C8: pause, setOn or isOn with a name that is not the name of a registered
\* mode fails with an error and leaves the on, paused and active flags of
\* every registered mode as they were.
C8_UnknownNameFails ==
    [][(last'.op \in {"setOn", "isOn", "pause"} /\ last'.target # "mode") =>
          /\ last'.err
          /\ on' = on /\ active' = active
          /\ \A m \in ModeNames : mode_paused(m)' = mode_paused(m)]_vars

\* C9 as stated: with one candidate item that stays eligible from its first
\* sighting at time T, item_collecting dispatches the pickup exactly when
\* the time it reads is T + wait seconds or later.
C9_DispatchFromWait ==
    (last.op = "isClearPath_return" /\ last.dwell # NotNoticed) =>
        ("item_collecting" \in last.dispatched <=> last.dwell >= wait * 1000)

\* C9 as amended: with one candidate item that stays eligible from its first
\* sighting at time T (the time item_collecting reads after isClearPath has
\* answered), item_collecting dispatches the pickup exactly when the time it
\* reads after isClearPath has answered is later than T + wait seconds; at
\* T + wait seconds exactly it does not dispatch.
C9_DispatchAfterWait ==
    (last.op = "isClearPath_return" /\ last.dwell # NotNoticed) =>
        ("item_collecting" \in last.dispatched <=> last.dwell > wait * 1000)

C9_Witness ==
    /\ last.op = "isClearPath_return" /\ last.dwell = wait * 1000
    /\ "item_collecting" \notin last.dispatched
    /\ idle /\ item_clear /\ item # "null" /\ item # prev_item

\* C10: item_collecting never dispatches the pickup of a candidate that is
\* still the nearest item and has been the nearest item for less than the
\* dwell time.
C10_NoStaleDispatch ==
    (/\ last.op = "isClearPath_return"
     /\ "item_collecting" \in last.dispatched
     /\ prev_item = item)
        => now - item_since >= wait * 1000

\* C11: item_collecting dispatches only for a candidate other than
\* prev_item and then makes it prev_item; prev_item changes in no other step;
\* an update of item_collecting that finds prev_item as the nearest item
\* returns without asking isClearPath, dispatches nothing and keeps
\* prev_item, whatever the clock shows.
C11_NoRedispatchOnPrevItem ==
    [][/\ "item_collecting" \in last'.dispatched =>
            /\ last'.op = "isClearPath_return"
            /\ cand # "null" /\ cand # prev_item /\ prev_item' = cand
       /\ prev_item' # prev_item => "item_collecting" \in last'.dispatched
       /\ ("item_collecting" \in last'.invoked /\ item # "null" /\ item = prev_item) =>
            /\ pc' = "resume"
            /\ "item_collecting" \notin last'.dispatched
            /\ prev_item' = prev_item]_vars

C11_Witness ==
    /\ last.op = "update_resume" /\ "item_collecting" \in last.invoked
    /\ item # "null" /\ item = prev_item
    /\ idle /\ item_clear /\ ~active["item_collecting"]
    /\ pc = "resume"
    /\ now - item_since > 2 * wait * 1000

\* the modes that act through execute
ExecModes == ModeNames \ {"idle_staring"}

\* C12: no mode ever has more than one execute invocation in flight.
C12_SingleFlight ==
    \A m \in ModeNames : inflight[m] <= 1

\* C13: when the action of mode m settles as a failure (agent.coder.execute
\* reports failure or rejects), the mode is inactive afterwards and its on
\* flag is unchanged.
C13_FailureClearsActive ==
    [][\A m \in ModeNames :
          (execute_return(m, "failure") \/ execute_return(m, "rejected"))
              => (~active'[m] /\ on'[m] = on[m])]_vars

\* C14: at the end of every tick in which the agent is not idle,
\* idle_staring.active is false.  (Left aside is the tick that ends right
\* after idle_staring.update itself, where the agent may have stopped being
\* idle since that update looked.)
C14_NotIdleNotStaring ==
    [][(last'.op \in TickOps /\ pc' = "none" /\ ~idle'
            /\ ~(pc = "resume" /\ modes_list[cur] = "idle_staring"))
         => ~active'["idle_staring"]]_vars

\* C15: a tick that starts with self_defense on, not paused and not active
\* and with a reachable hostile entity calls self_defense.update first,
\* which asks isClearPath; when it goes on it dispatches the defend action
\* and leaves self_defense active, whether or not the agent is idle,
\* whatever the lower modes are doing and whatever happened during the wait.
C15_SelfDefenseAlwaysTriggers ==
    [][/\ (last'.op = "update" /\ on["self_defense"] /\ ~mode_paused("self_defense")'
              /\ ~active["self_defense"] /\ enemy)
         => (pc' = "path" /\ cur' = 1 /\ last'.invoked = {"self_defense"})
       /\ (last'.op = "isClearPath_return" /\ cur = 1)
         => /\ pc = "path"
            /\ active'["self_defense"]
            /\ last'.dispatched = {"self_defense"}
            /\ inflight'["self_defense"] = inflight["self_defense"] + 1]_vars

C15_Witness ==
    /\ last.op = "isClearPath_return"
    /\ "self_defense" \in last.dispatched /\ active["self_defense"]
    /\ ~idle
    /\ active["torch_placing"] /\ inflight["torch_placing"] > 0

\* the modes whose update asks agent.isIdle() before it looks for a trigger
IdleGated == {"hunting", "item_collecting", "torch_placing"}

\* C16: an action of hunting, item_collecting or torch_placing is dispatched
\* only in a state where the agent is idle.
C16_DispatchOnlyWhenIdle ==
    (last.op \in TickOps /\ last.dispatched \cap IdleGated # {}) => idle

\* C17: for every mode that acts through execute, active is true exactly
\* when an action dispatched by the mode has started and has not finished.
C17_ActiveIffInFlight ==
    \A m \in ExecModes : active[m] <=> inflight[m] > 0

\* C18: from a state where mode M is active, on and not paused, no step
\* makes a mode behind M newly active, and no piece of a tick calls the
\* update of a mode behind M.
C18_ActiveModeBlocksLower ==
    [][\A i \in 1..Len(modes_list) :
          LET M == modes_list[i]
          IN  (active[M] /\ on[M] /\ ~mode_paused(M)) =>
                \A j \in (i + 1)..Len(modes_list) :
                    LET L == modes_list[j]
                    IN  /\ L \notin last'.invoked
                        /\ ~(~active[L] /\ active'[L])]_vars

\* C19: setOn for a registered mode changes the on flag of that mode and
\* nothing else of the controller; isOn for a registered mode returns the
\* mode's on flag, which is the value of the last setOn for it; every other
\* step (a piece of a tick, the end of an action, pause, isOn, setOn for a
\* name that is no mode) leaves every on flag and every isOn answer as it
\* was; no step writes modes_list or the keys of modes_map.
C19_OnlySetOnChangesOn ==
    [][/\ (last'.op = "setOn" /\ last'.target = "mode") =>
            /\ \A m \in ModeNames :
                  IF m = last'.name THEN isOn_result(m)' = last'.ret
                  ELSE on'[m] = on[m]
            /\ <<active, paused, proto, inherited, inflight, prev_item, noticed_at,
                 pc, cur, cand>>'
                  = <<active, paused, proto, inherited, inflight, prev_item, noticed_at,
                      pc, cur, cand>>
       /\ ~(last'.op = "setOn" /\ last'.target = "mode") =>
            /\ on' = on
            /\ \A m \in ModeNames : isOn_result(m)' = isOn_result(m)
       /\ (last'.op = "isOn" /\ last'.target = "mode") =>
            (~last'.err /\ last'.ret = js(on[last'.name]))
       /\ registry' = registry]_vars

C19_Witness ==
    /\ last.op = "isOn" /\ last.name = "self_defense" /\ last.ret = "false"
    /\ ~on["self_defense"] /\ calls = 2
    /\ \A m \in ModeNames \ {"self_defense"} : on[m]
    /\ active["self_defense"] /\ inflight["self_defense"] > 0

\* C20: with every dispatched action settling in the end, a mode that is
\* active through execute is inactive again at some later time.
C20_ActiveEventuallyClears ==
    \A m \in ExecModes : active[m] ~> ~active[m]

====================================================================
